---- MODULE Spec2Model ----
(***************************************************************************)
(* API tokens of stp-database: the ApiToken / ApiTokenAuditLog tables and  *)
(* the operations of ApiTokenRepo (create_token, validate_token,           *)
(* revoke_token, extend_token, cleanup_expired_tokens).                    *)
(*                                                                         *)
(* Time is counted in whole days.  A call of the repository is one action: *)
(* the handler from its first statement to its return.  Every storage call *)
(* of a handler (execute, commit, refresh, the audit commit) may raise     *)
(* SQLAlchemyError; the parameter `fail` names the storage call that       *)
(* raises in this call ("none": no storage call raises).  Spec lets no     *)
(* storage call raise, SpecFault lets any one of them raise.               *)
(*                                                                         *)
(* SpecConc runs the handlers of two callers, each with a session of its   *)
(* own, one storage call at a time: a step is one awaited call of the      *)
(* session (execute, commit, the commit of _create_audit_log) with the     *)
(* Python statements that precede it.                                      *)
(***************************************************************************)
EXTENDS Integers, Sequences, FiniteSets, TLC

\* ------------------------------------------------------------- bounds
MaxTokens == 2
MaxTime == 2
MaxCalls == 4
MaxExpiry == 4
MaxConcCalls == 3

\* ------------------------------------------------------------- values
\* Python's None in an integer column or argument (ids and days are >= 0).
None == -1
\* Python's None in a text column or argument.
NoneStr == "None"

\* The strings _generate_token can return ('stp_' + 64 hex characters).
RawTokens == {"stp_a", "stp_b"}
\* Strings a caller may present to validate_token: issued or not.
PresentedTokens == RawTokens \cup {"stp_x"}
\* employee_id / name arguments of create_token.
Employees == {7}
Names == {"ci"}
\* expires_in_days arguments of create_token (None: no expiry).
TtlDays == {None, 0}
\* days arguments of extend_token.
ExtendDays == {1, 2}
\* token_id arguments of revoke_token / extend_token.
TokenIds == 1..(MaxTokens + 1)
\* days_inactive arguments of cleanup_expired_tokens.
CleanupDays == {0, 1}
\* Request context (ip_address, user_agent, endpoint) of validate_token.
NoContext == [ip_address |-> NoneStr, user_agent |-> NoneStr, endpoint |-> NoneStr]
Contexts == {NoContext,
             [ip_address |-> "10.0.0.1", user_agent |-> "curl", endpoint |-> "/api"]}
\* error_message of a failed validation: "Токен не найден или неактивен",
\* "Токен истек".
ErrNotFound == "token not found or inactive"
ErrExpired == "token expired"
\* resource and action arguments of check_permission.
Resources == {"employees", "products"}
Actions == {"read", "write"}
\* A JSON value of a permission document, by its Python type: a key that is
\* missing ("absent"), None, a bool, a str, a list of str (its members), a
\* number, a dict (of no interest beyond its type).
Json(type, b, s, items) == [type |-> type, b |-> b, s |-> s, items |-> items]
JsonAbsent == Json("absent", FALSE, "", {})
JsonNull == Json("null", FALSE, "", {})
JsonBool(b) == Json("bool", b, "", {})
JsonStr(str) == Json("str", FALSE, str, {})
JsonList(items) == Json("list", FALSE, "", items)
JsonNum == Json("num", FALSE, "", {})
JsonDict == Json("dict", FALSE, "", {})
\* Values of permissions["admin"] and of permissions["resources"][name].
AdminValues == {JsonAbsent, JsonNull, JsonBool(TRUE), JsonBool(FALSE), JsonStr("true"), JsonNum}
ResourcePerms ==
    {JsonAbsent, JsonNull, JsonBool(TRUE), JsonBool(FALSE), JsonNum, JsonDict}
        \cup {JsonStr(a) : a \in Actions \cup {"READ"}}
        \cup {JsonList(l) : l \in SUBSET Actions}
\* Values of permissions["resources"]: a dict (type "dict", its entries in
\* map) or something else (map is then of no interest).
NoEntries == [r \in Resources |-> JsonAbsent]
ResourceZones ==
    [type : {"dict"}, map : [Resources -> ResourcePerms]]
        \cup [type : {"absent", "null", "str", "list", "num"}, map : {NoEntries}]
\* token.permissions
PermissionDocs == [admin : AdminValues, resources : ResourceZones]
\* Callers that use the repository at the same time.
Procs == {1, 2}
\* The storage call of a handler that raises SQLAlchemyError.
Faults == {"none", "execute", "commit", "refresh", "audit"}

VARIABLES
    tokens,      \* table tokens: id -> row
    audit,       \* table token_audit_logs, in insertion order
    nextId,      \* next autoincrement id of table tokens
    now,         \* datetime.now(), in days
    revoked_ok,  \* ids for which revoke_token has returned True
    calls,       \* number of calls made so far
    last,        \* the last call: its arguments and what it returned
    perm,        \* a call of check_permission: its arguments and its result
    proc,        \* per caller: the call in progress, its next storage call,
                 \* and the ApiToken object of its session
    issued       \* token_hash of every row ever inserted, by id

vars == <<tokens, audit, nextId, now, revoked_ok, calls, last, perm, proc, issued>>

\* ------------------------------------------------------- pure helpers
\* hashlib.sha256(raw_token.encode()).hexdigest(): one digest per string,
\* never the string itself.
hash_token_plain(raw_token) == raw_token

hash_token(raw_token) ==
    CASE raw_token = "stp_a" -> "sha_1"
      [] raw_token = "stp_b" -> "sha_2"
      [] OTHER -> "sha_3"

\* expires_at of a new token.
expires_at_for_never(expires_in_days, t) == None

expires_at_for(expires_in_days, t) ==
    IF expires_in_days # None THEN t + expires_in_days ELSE None

\* create_token's permissions when the argument is None: {}.
NoPermissions == [admin |-> JsonAbsent, resources |-> [type |-> "absent", map |-> NoEntries]]

\* The row ApiToken(...) inserts: is_active / is_revoked / last_used_at
\* take the column defaults, created_at the server's now().
NewToken(id, token_hash, employee_id, name, expires_at, t) ==
    [id |-> id, token_hash |-> token_hash, employee_id |-> employee_id,
     name |-> name, description |-> NoneStr,
     is_active |-> TRUE, is_revoked |-> FALSE,
     expires_at |-> expires_at, last_used_at |-> None,
     permissions |-> NoPermissions, created_at |-> t]

\* The row ApiTokenAuditLog(...) inserts.  metadata is None or the day count
\* of {"days": days}.  The keyword metadata= sets the attribute `metadata`
\* of the object, which is no column of the table: the column
\* extra_metadata is given no value and stays NULL.
AuditRecord(token_id, action, success, error_message, ctx, metadata) ==
    [token_id |-> token_id, action |-> action, success |-> success,
     error_message |-> error_message,
     ip_address |-> ctx.ip_address, user_agent |-> ctx.user_agent,
     endpoint |-> ctx.endpoint, extra_metadata |-> None]

\* _create_audit_log: the table after the call.  Without a token_id nothing
\* is written; a failing commit is rolled back and swallowed.
create_audit_log_success_only(log, token_id, action, success, error_message, ctx, metadata, fail) ==
    IF token_id = None \/ ~success THEN log
    ELSE IF fail = "audit" THEN log
    ELSE Append(log, AuditRecord(token_id, action, success, error_message, ctx, metadata))

create_audit_log_orphan(log, token_id, action, success, error_message, ctx, metadata, fail) ==
    IF fail = "audit" THEN log
    ELSE Append(log, AuditRecord(token_id, action, success, error_message, ctx, metadata))

create_audit_log(log, token_id, action, success, error_message, ctx, metadata, fail) ==
    IF token_id = None THEN log
    ELSE IF fail = "audit" THEN log
    ELSE Append(log, AuditRecord(token_id, action, success, error_message, ctx, metadata))

\* The unique index on token_hash rejects the INSERT of a second row with
\* the same hash: the commit raises IntegrityError.
duplicate_never(tab, token_hash) == FALSE

duplicate(tab, token_hash) == \E i \in DOMAIN tab : tab[i].token_hash = token_hash

\* The UPDATE a commit emits for an object of the session: it sets the
\* columns whose attributes were assigned and leaves the others of the
\* stored row alone.
flush_row(row, token, columns) == token

flush_later(row, token, columns) ==
    [f \in DOMAIN row |->
        IF f \in columns /\ ~(f = "expires_at" /\ row[f] > token[f])
        THEN token[f] ELSE row[f]]

flush(row, token, columns) ==
    [f \in DOMAIN row |-> IF f \in columns THEN token[f] ELSE row[f]]

\* select(ApiToken).where(token_hash == h, is_active).scalar_one_or_none():
\* the id of the row, or None.  token_hash is unique.
validate_query_any(tab, h) ==
    LET hit == {i \in DOMAIN tab : tab[i].token_hash = h}
    IN IF hit = {} THEN None ELSE CHOOSE i \in hit : TRUE

validate_query(tab, h) ==
    LET hit == {i \in DOMAIN tab : tab[i].token_hash = h /\ tab[i].is_active}
    IN IF hit = {} THEN None ELSE CHOOSE i \in hit : TRUE

\* select(ApiToken).where(id == token_id).scalar_one_or_none()
id_query_any(tab, token_id) ==
    IF token_id \in DOMAIN tab THEN token_id
    ELSE IF DOMAIN tab = {} THEN None
    ELSE CHOOSE i \in DOMAIN tab : TRUE

id_query(tab, token_id) ==
    IF token_id \in DOMAIN tab THEN token_id ELSE None

\* token.expires_at and token.expires_at < datetime.now()
is_expired_at_expiry(row, t) ==
    row.expires_at # None /\ row.expires_at <= t

is_expired(row, t) ==
    row.expires_at # None /\ row.expires_at < t

\* token.last_used_at = datetime.now()
touch_skip(row, t) == row

touch_dates(row, t) == [row EXCEPT !.last_used_at = t, !.created_at = t]

touch_once(row, t) == IF row.last_used_at = None THEN [row EXCEPT !.last_used_at = t] ELSE row

touch(row, t) == [row EXCEPT !.last_used_at = t]

\* token.is_active = False
deactivate_toggle(row) == [row EXCEPT !.is_active = ~row.is_active]

deactivate(row) == [row EXCEPT !.is_active = FALSE]

\* extend_token's new expires_at
extended_from_now(row, days, t) == [row EXCEPT !.expires_at = t + days]

extended(row, days, t) ==
    IF row.expires_at = None
    THEN [row EXCEPT !.expires_at = t + days]
    ELSE [row EXCEPT !.expires_at = row.expires_at + days]

\* dict.get(key) of a permission value: None for a missing key.
get(value) == IF value.type = "absent" THEN JsonNull ELSE value

\* check_permission: "True", "False", or the exception it raises.
check_permission_any_list(permissions, resource, action) ==
    IF get(permissions.admin) = JsonBool(TRUE) THEN "True"
    ELSE IF permissions.resources.type \notin {"dict", "absent"} THEN "AttributeError"
    ELSE LET resource_perm == get(permissions.resources.map[resource])
         IN IF resource_perm = JsonNull \/ resource_perm = JsonBool(FALSE) THEN "False"
            ELSE IF resource_perm = JsonBool(TRUE) THEN "True"
            ELSE IF resource_perm.type = "str"
                 THEN (IF resource_perm.s = action THEN "True" ELSE "False")
            ELSE IF resource_perm.type = "list" THEN "True"
            ELSE "False"

check_permission(permissions, resource, action) ==
    IF get(permissions.admin) = JsonBool(TRUE) THEN "True"
    \* permissions.get("resources", {}) is {} only for a missing key; the
    \* .get of None, a str, a list or a number does not exist
    ELSE IF permissions.resources.type \notin {"dict", "absent"} THEN "AttributeError"
    ELSE LET resource_perm == get(permissions.resources.map[resource])
         IN IF resource_perm = JsonNull \/ resource_perm = JsonBool(FALSE) THEN "False"
            ELSE IF resource_perm = JsonBool(TRUE) THEN "True"
            ELSE IF resource_perm.type = "str"
                 THEN (IF resource_perm.s = action THEN "True" ELSE "False")
            ELSE IF resource_perm.type = "list"
                 THEN (IF action \in resource_perm.items THEN "True" ELSE "False")
            ELSE "False"

\* `not ApiToken.is_active` is Python's `not` applied to the mapped
\* attribute, an object without __bool__: the constant False, whatever the
\* row.  and_(False, ...) is the SQL constant false.
cleanup_filter(row, cutoff_date) ==
    FALSE /\ row.expires_at # None /\ row.expires_at < cutoff_date

\* The record of a call.
Call(op, raw, token_id, days, fail, ret_token, ret_raw, ret_bool, ret_count) ==
    [op |-> op, raw |-> raw, token_id |-> token_id, days |-> days, fail |-> fail,
     ret_token |-> ret_token, ret_raw |-> ret_raw, ret_bool |-> ret_bool,
     ret_count |-> ret_count]

\* ---------------------------------------------------------------- Init
\* A call of check_permission before it returns, and no call.
PermCall(permissions, resource, action, result) ==
    [permissions |-> permissions, resource |-> resource, action |-> action,
     result |-> result]

PermIdle ==
    PermCall([admin |-> JsonAbsent, resources |-> [type |-> "absent", map |-> NoEntries]],
             "employees", "read", "idle")

\* No ApiToken object, and a caller with no call in progress.
NoRow == NewToken(None, NoneStr, None, NoneStr, None, None)

InProgress(op, pc, raw, token_id, days, token, stale) ==
    [op |-> op, pc |-> pc, raw |-> raw, token_id |-> token_id, days |-> days,
     token |-> token, stale |-> stale]

Idle == InProgress("idle", "idle", NoneStr, None, None, NoRow, FALSE)

InitStore ==
    /\ proc = [p \in Procs |-> Idle]
    /\ issued = <<>>
    /\ tokens = <<>>
    /\ audit = <<>>
    /\ nextId = 1
    /\ now = 0
    /\ revoked_ok = {}
    /\ calls = 0
    /\ last = Call("init", NoneStr, None, None, "none", None, NoneStr, FALSE, 0)

Init ==
    /\ InitStore
    /\ perm = PermIdle

\* The store after one create_token call at day 0, no call in progress.
InitConc ==
    \E e \in Employees, n \in Names, d \in TtlDays :
        /\ tokens = <<NewToken(1, hash_token("stp_a"), e, n, expires_at_for(d, 0), 0)>>
        /\ audit = <<AuditRecord(1, "token_created", TRUE, NoneStr, NoContext, None)>>
        /\ nextId = 2
        /\ now = 0
        /\ revoked_ok = {}
        /\ calls = 1
        /\ last = Call("create_token", "stp_a", None, d, "none", 1, "stp_a", TRUE, 0)
        /\ perm = PermIdle
        /\ proc = [p \in Procs |-> Idle]
        /\ issued = <<hash_token("stp_a")>>

\* check_permission is called with any document, resource and action.
InitPerm ==
    /\ InitStore
    /\ perm \in {PermCall(d, r, a, "pending") :
                    d \in PermissionDocs, r \in Resources, a \in Actions}

\* ------------------------------------------------------------- actions
\* One more call of the repository.
Called ==
    /\ calls < MaxCalls
    /\ calls' = calls + 1

\* The clock advances between calls.
Tick ==
    /\ now < MaxTime
    /\ now' = now + 1
    /\ UNCHANGED <<tokens, audit, nextId, revoked_ok, calls, last, perm, proc, issued>>

create_token(employee_id, name, expires_in_days, raw_token, fail) ==
    LET token_hash == hash_token(raw_token)
        expires_at == expires_at_for(expires_in_days, now)
        new_token == NewToken(nextId, token_hash, employee_id, name, expires_at, now)
        inserted == [i \in DOMAIN tokens \cup {nextId} |->
                        IF i = nextId THEN new_token ELSE tokens[i]]
    IN /\ fail \in {"none", "commit", "refresh", "audit"}
       /\ nextId <= MaxTokens
       /\ Called
       /\ IF fail = "commit" \/ duplicate(tokens, token_hash)
          THEN \* commit raises: rollback, return None
               /\ UNCHANGED <<tokens, audit, nextId, issued>>
               /\ last' = Call("create_token", raw_token, None, expires_in_days, fail,
                               None, NoneStr, FALSE, 0)
          ELSE IF fail = "refresh"
          THEN \* the INSERT is committed, refresh raises: return None
               /\ tokens' = inserted
               /\ nextId' = nextId + 1
               /\ issued' = Append(issued, token_hash)
               /\ UNCHANGED audit
               /\ last' = Call("create_token", raw_token, None, expires_in_days, fail,
                               None, NoneStr, FALSE, 0)
          ELSE /\ tokens' = inserted
               /\ nextId' = nextId + 1
               /\ issued' = Append(issued, token_hash)
               /\ audit' = create_audit_log(audit, new_token.id, "token_created",
                                            TRUE, NoneStr, NoContext, None, fail)
               /\ last' = Call("create_token", raw_token, None, expires_in_days, fail,
                               new_token.id, raw_token, TRUE, 0)
       /\ UNCHANGED <<now, revoked_ok, perm, proc>>

\* What validate_token returns from `except SQLAlchemyError`: None.
validate_error_raised(raw_token, fail) ==
    Call("validate_token", raw_token, None, None, fail, None, "SQLAlchemyError", FALSE, 0)

validate_error(raw_token, fail) ==
    Call("validate_token", raw_token, None, None, fail, None, NoneStr, FALSE, 0)

validate_token(raw_token, ctx, fail) ==
    LET token_hash == hash_token(raw_token)
        token == validate_query(tokens, token_hash)
    IN /\ fail \in {"none", "execute", "commit", "audit"}
       /\ Called
       /\ IF fail = "execute"
          THEN \* execute raises (no rollback)
               /\ UNCHANGED <<tokens, audit>>
               /\ last' = validate_error(raw_token, fail)
          ELSE IF token = None
          THEN \* no active row: _create_audit_log(token_id=None), return None
               /\ fail = "none"
               /\ audit' = create_audit_log(audit, None, "token_validation_failed",
                                            FALSE, ErrNotFound, ctx, None, fail)
               /\ UNCHANGED tokens
               /\ last' = Call("validate_token", raw_token, None, None, fail,
                               None, NoneStr, FALSE, 0)
          ELSE IF is_expired(tokens[token], now)
          THEN /\ fail \in {"none", "audit"}
               /\ audit' = create_audit_log(audit, token, "token_validation_failed",
                                            FALSE, ErrExpired, ctx, None, fail)
               /\ UNCHANGED tokens
               /\ last' = Call("validate_token", raw_token, None, None, fail,
                               None, NoneStr, FALSE, 0)
          ELSE IF fail = "commit"
          THEN \* commit of last_used_at raises (no rollback)
               /\ UNCHANGED <<tokens, audit>>
               /\ last' = validate_error(raw_token, fail)
          ELSE /\ tokens' = [tokens EXCEPT ![token] = touch(@, now)]
               /\ audit' = create_audit_log(audit, token, "token_used",
                                            TRUE, NoneStr, ctx, None, fail)
               /\ last' = Call("validate_token", raw_token, None, None, fail,
                               token, NoneStr, TRUE, 0)
       /\ UNCHANGED <<nextId, now, revoked_ok, perm, proc, issued>>

revoke_token(token_id, fail) ==
    LET token == id_query(tokens, token_id)
    IN /\ fail \in {"none", "execute", "commit", "audit"}
       /\ Called
       /\ IF fail = "execute"
          THEN \* execute raises: rollback, return False
               /\ UNCHANGED <<tokens, audit, revoked_ok>>
               /\ last' = Call("revoke_token", NoneStr, token_id, None, fail,
                               None, NoneStr, FALSE, 0)
          ELSE IF token = None
          THEN /\ fail = "none"
               /\ UNCHANGED <<tokens, audit, revoked_ok>>
               /\ last' = Call("revoke_token", NoneStr, token_id, None, fail,
                               None, NoneStr, FALSE, 0)
          ELSE IF fail = "commit"
          THEN \* commit raises: rollback, return False
               /\ UNCHANGED <<tokens, audit, revoked_ok>>
               /\ last' = Call("revoke_token", NoneStr, token_id, None, fail,
                               None, NoneStr, FALSE, 0)
          ELSE /\ tokens' = [tokens EXCEPT ![token] = deactivate(@)]
               /\ audit' = create_audit_log(audit, token, "token_revoked",
                                            TRUE, NoneStr, NoContext, None, fail)
               /\ revoked_ok' = revoked_ok \cup {token}
               /\ last' = Call("revoke_token", NoneStr, token_id, None, fail,
                               None, NoneStr, TRUE, 0)
       /\ UNCHANGED <<nextId, now, perm, proc, issued>>

extend_token(token_id, days, fail) ==
    LET token == id_query(tokens, token_id)
    IN /\ Called
       /\ IF fail = "execute"
          THEN \* execute raises: rollback, return None
               /\ UNCHANGED <<tokens, audit>>
               /\ last' = Call("extend_token", NoneStr, token_id, days, fail,
                               None, NoneStr, FALSE, 0)
          ELSE IF token = None
          THEN /\ fail = "none"
               /\ UNCHANGED <<tokens, audit>>
               /\ last' = Call("extend_token", NoneStr, token_id, days, fail,
                               None, NoneStr, FALSE, 0)
          ELSE IF fail = "commit"
          THEN \* commit raises: rollback, return None
               /\ UNCHANGED <<tokens, audit>>
               /\ last' = Call("extend_token", NoneStr, token_id, days, fail,
                               None, NoneStr, FALSE, 0)
          ELSE IF fail = "refresh"
          THEN \* the UPDATE is committed, refresh raises: return None
               /\ tokens' = [tokens EXCEPT ![token] = extended(@, days, now)]
               /\ UNCHANGED audit
               /\ last' = Call("extend_token", NoneStr, token_id, days, fail,
                               None, NoneStr, FALSE, 0)
          ELSE /\ tokens' = [tokens EXCEPT ![token] = extended(@, days, now)]
               /\ audit' = create_audit_log(audit, token, "token_extended",
                                            TRUE, NoneStr, NoContext, days, fail)
               /\ last' = Call("extend_token", NoneStr, token_id, days, fail,
                               token, NoneStr, TRUE, 0)
       /\ \A i \in DOMAIN tokens' : tokens'[i].expires_at <= MaxExpiry
       /\ UNCHANGED <<nextId, now, revoked_ok, perm, proc, issued>>

\* A sweep by expiry alone, with the audit rows removed by the foreign key.
cleanup_expired_tokens_by_expiry(days_inactive, fail) ==
    LET cutoff_date == now - days_inactive
        selected == {i \in DOMAIN tokens : /\ tokens[i].expires_at # None
                                           /\ tokens[i].expires_at < cutoff_date}
    IN /\ fail = "none"
       /\ Called
       /\ tokens' = [i \in DOMAIN tokens \ selected |-> tokens[i]]
       /\ audit' = SelectSeq(audit, LAMBDA rec : rec.token_id \notin selected)
       /\ last' = Call("cleanup_expired_tokens", NoneStr, None, days_inactive, fail,
                       None, NoneStr, FALSE, Cardinality(selected))
       /\ UNCHANGED <<nextId, now, revoked_ok, perm, proc, issued>>

cleanup_expired_tokens(days_inactive, fail) ==
    LET cutoff_date == now - days_inactive
        selected == {i \in DOMAIN tokens : cleanup_filter(tokens[i], cutoff_date)}
        deleted_count == Cardinality(selected)
        \* session.delete(token) of a row with audit rows: the relationship
        \* audit_logs has no delete cascade, so the flush sets their token_id
        \* to NULL, which the column (nullable=False) rejects
        orphaned == \E k \in 1..Len(audit) : audit[k].token_id \in selected
    IN /\ fail \in {"none", "execute", "commit"}
       /\ Called
       /\ IF fail = "execute"
          THEN /\ UNCHANGED <<tokens, audit>>
               /\ last' = Call("cleanup_expired_tokens", NoneStr, None, days_inactive, fail,
                               None, NoneStr, FALSE, 0)
          ELSE IF deleted_count = 0
          THEN /\ fail = "none"
               /\ UNCHANGED <<tokens, audit>>
               /\ last' = Call("cleanup_expired_tokens", NoneStr, None, days_inactive, fail,
                               None, NoneStr, FALSE, 0)
          ELSE IF fail = "commit" \/ orphaned
          THEN \* commit raises: rollback, return 0
               /\ UNCHANGED <<tokens, audit>>
               /\ last' = Call("cleanup_expired_tokens", NoneStr, None, days_inactive, fail,
                               None, NoneStr, FALSE, 0)
          ELSE /\ tokens' = [i \in DOMAIN tokens \ selected |-> tokens[i]]
               /\ UNCHANGED audit
               /\ last' = Call("cleanup_expired_tokens", NoneStr, None, days_inactive, fail,
                               None, NoneStr, FALSE, deleted_count)
       /\ UNCHANGED <<nextId, now, revoked_ok, perm, proc, issued>>

\* -------------------------------------------------------- specifications
\* Calls in sequence, no storage call raises.
Next ==
    \/ Tick
    \/ \E e \in Employees, n \in Names, d \in TtlDays, r \in RawTokens :
          create_token(e, n, d, r, "none")
    \/ \E r \in PresentedTokens, c \in Contexts : validate_token(r, c, "none")
    \/ \E i \in TokenIds : revoke_token(i, "none")
    \/ \E i \in TokenIds, d \in ExtendDays : extend_token(i, d, "none")
    \/ \E d \in CleanupDays : cleanup_expired_tokens(d, "none")

Spec == Init /\ [][Next]_vars

\* Calls in sequence, any one storage call of a call may raise.
NextFault ==
    \/ Tick
    \/ \E e \in Employees, n \in Names, d \in TtlDays, r \in RawTokens, f \in Faults :
          create_token(e, n, d, r, f)
    \/ \E r \in PresentedTokens, c \in Contexts, f \in Faults : validate_token(r, c, f)
    \/ \E i \in TokenIds, f \in Faults : revoke_token(i, f)
    \/ \E i \in TokenIds, d \in ExtendDays, f \in Faults : extend_token(i, d, f)
    \/ \E d \in CleanupDays, f \in Faults : cleanup_expired_tokens(d, f)

SpecFault == Init /\ [][NextFault]_vars

\* Calls in sequence, any one storage call of validate_token may raise.
NextValidateFault ==
    \/ Tick
    \/ \E e \in Employees, n \in Names, d \in TtlDays, r \in RawTokens :
          create_token(e, n, d, r, "none")
    \/ \E r \in PresentedTokens, c \in Contexts, f \in Faults : validate_token(r, c, f)
    \/ \E i \in TokenIds : revoke_token(i, "none")
    \/ \E i \in TokenIds, d \in ExtendDays : extend_token(i, d, "none")
    \/ \E d \in CleanupDays : cleanup_expired_tokens(d, "none")

SpecValidateFault == Init /\ [][NextValidateFault]_vars

\* check_permission returns (or raises); it reads token.permissions only.
Authorize ==
    /\ perm.result = "pending"
    /\ perm' = [perm EXCEPT !.result =
                    check_permission(perm.permissions, perm.resource, perm.action)]
    /\ UNCHANGED <<tokens, audit, nextId, now, revoked_ok, calls, last, proc, issued>>

NextPerm == Authorize

\* One call of check_permission on any permission document.
SpecPerm == InitPerm /\ [][NextPerm]_vars


\* ------------------------------------------- two callers, step by step
\* A caller starts a call.
Begins(p) ==
    /\ proc[p] = Idle
    /\ calls < MaxConcCalls
    /\ calls' = calls + 1

\* create_token up to its commit: the ApiToken object is built.
create_token_begin(p, employee_id, name, expires_in_days, raw_token) ==
    /\ Begins(p)
    /\ proc' = [proc EXCEPT ![p] =
                  InProgress("create_token", "commit", raw_token, None, expires_in_days,
                             NewToken(None, hash_token(raw_token), employee_id, name,
                                      expires_at_for(expires_in_days, now), None),
                             FALSE)]
    /\ UNCHANGED <<tokens, audit, nextId, now, revoked_ok, last, perm, issued>>

\* session.add, commit, refresh: the INSERT, or IntegrityError, rollback
\* and return None.
create_token_commit(p) ==
    LET new_token == [proc[p].token EXCEPT !.id = nextId, !.created_at = now]
    IN /\ proc[p].op = "create_token"
       /\ proc[p].pc = "commit"
       /\ IF duplicate(tokens, new_token.token_hash)
          THEN /\ proc' = [proc EXCEPT ![p] = Idle]
               /\ last' = Call("create_token", proc[p].raw, None, proc[p].days, "none",
                               None, NoneStr, FALSE, 0)
               /\ UNCHANGED <<tokens, nextId, issued>>
          ELSE /\ nextId <= MaxTokens
               /\ tokens' = [i \in DOMAIN tokens \cup {nextId} |->
                                IF i = nextId THEN new_token ELSE tokens[i]]
               /\ nextId' = nextId + 1
               /\ issued' = Append(issued, new_token.token_hash)
               /\ proc' = [proc EXCEPT ![p].token = new_token, ![p].pc = "audit"]
               /\ UNCHANGED last
       /\ UNCHANGED <<audit, now, revoked_ok, calls, perm>>

\* _create_audit_log("token_created") and return (raw_token, new_token).
create_token_audit(p) ==
    /\ proc[p].op = "create_token"
    /\ proc[p].pc = "audit"
    /\ audit' = create_audit_log(audit, proc[p].token.id, "token_created",
                                 TRUE, NoneStr, NoContext, None, "none")
    /\ last' = Call("create_token", proc[p].raw, None, proc[p].days, "none",
                    proc[p].token.id, proc[p].raw, TRUE, 0)
    /\ proc' = [proc EXCEPT ![p] = Idle]
    /\ UNCHANGED <<tokens, nextId, now, revoked_ok, calls, perm, issued>>

\* The secret of a create_token call is known to nobody before the call
\* has returned it.
validate_token_begin(p, raw_token) ==
    /\ Begins(p)
    /\ \A q \in Procs : ~(proc[q].op = "create_token" /\ proc[q].raw = raw_token)
    /\ proc' = [proc EXCEPT ![p] =
                  InProgress("validate_token", "execute", raw_token, None, None, NoRow, FALSE)]
    /\ UNCHANGED <<tokens, audit, nextId, now, revoked_ok, last, perm, issued>>

\* The SELECT and the tests on its result: no row (nothing is logged,
\* return None), an expired row, a valid row.
validate_token_execute(p) ==
    LET token == validate_query(tokens, hash_token(proc[p].raw))
    IN /\ proc[p].op = "validate_token"
       /\ proc[p].pc = "execute"
       /\ IF token = None
          THEN /\ proc' = [proc EXCEPT ![p] = Idle]
               /\ last' = Call("validate_token", proc[p].raw, None, None, "none",
                               None, NoneStr, FALSE, 0)
          ELSE /\ proc' = [proc EXCEPT ![p].token = tokens[token],
                                       ![p].pc = IF is_expired(tokens[token], now)
                                                 THEN "audit_failed" ELSE "commit"]
               /\ UNCHANGED last
       /\ UNCHANGED <<tokens, audit, nextId, now, revoked_ok, calls, perm, issued>>

\* _create_audit_log("token_validation_failed") and return None.
validate_token_audit_failed(p) ==
    /\ proc[p].op = "validate_token"
    /\ proc[p].pc = "audit_failed"
    /\ audit' = create_audit_log(audit, proc[p].token.id, "token_validation_failed",
                                 FALSE, ErrExpired, NoContext, None, "none")
    /\ last' = Call("validate_token", proc[p].raw, None, None, "none",
                    None, NoneStr, FALSE, 0)
    /\ proc' = [proc EXCEPT ![p] = Idle]
    /\ UNCHANGED <<tokens, nextId, now, revoked_ok, calls, perm, issued>>

\* token.last_used_at = datetime.now(); commit.
validate_token_commit(p) ==
    LET token == touch(proc[p].token, now)
    IN /\ proc[p].op = "validate_token"
       /\ proc[p].pc = "commit"
       /\ tokens' = [tokens EXCEPT ![token.id] = flush(@, token, {"last_used_at"})]
       /\ proc' = [proc EXCEPT ![p].token = token, ![p].pc = "audit",
                               ![p].stale = tokens[token.id].is_active # token.is_active]
       /\ UNCHANGED <<audit, nextId, now, revoked_ok, calls, last, perm, issued>>

\* _create_audit_log("token_used") and return token.
validate_token_audit(p) ==
    /\ proc[p].op = "validate_token"
    /\ proc[p].pc = "audit"
    /\ audit' = create_audit_log(audit, proc[p].token.id, "token_used",
                                 TRUE, NoneStr, NoContext, None, "none")
    /\ last' = Call("validate_token", proc[p].raw, None, None, "none",
                    proc[p].token.id, NoneStr, TRUE, 0)
    /\ proc' = [proc EXCEPT ![p] = Idle]
    /\ UNCHANGED <<tokens, nextId, now, revoked_ok, calls, perm, issued>>

revoke_token_begin(p, token_id) ==
    /\ Begins(p)
    /\ proc' = [proc EXCEPT ![p] =
                  InProgress("revoke_token", "execute", NoneStr, token_id, None, NoRow, FALSE)]
    /\ UNCHANGED <<tokens, audit, nextId, now, revoked_ok, last, perm, issued>>

\* The SELECT by id: no row (return False) or the row.
revoke_token_execute(p) ==
    LET token == id_query(tokens, proc[p].token_id)
    IN /\ proc[p].op = "revoke_token"
       /\ proc[p].pc = "execute"
       /\ IF token = None
          THEN /\ proc' = [proc EXCEPT ![p] = Idle]
               /\ last' = Call("revoke_token", NoneStr, proc[p].token_id, None, "none",
                               None, NoneStr, FALSE, 0)
          ELSE /\ proc' = [proc EXCEPT ![p].token = tokens[token], ![p].pc = "commit"]
               /\ UNCHANGED last
       /\ UNCHANGED <<tokens, audit, nextId, now, revoked_ok, calls, perm, issued>>

\* token.is_active = False; commit.
revoke_token_commit(p) ==
    LET token == deactivate(proc[p].token)
    IN /\ proc[p].op = "revoke_token"
       /\ proc[p].pc = "commit"
       /\ tokens' = [tokens EXCEPT ![token.id] = flush(@, token, {"is_active"})]
       /\ proc' = [proc EXCEPT ![p].token = token, ![p].pc = "audit"]
       /\ UNCHANGED <<audit, nextId, now, revoked_ok, calls, last, perm, issued>>

\* _create_audit_log("token_revoked") and return True.
revoke_token_audit(p) ==
    /\ proc[p].op = "revoke_token"
    /\ proc[p].pc = "audit"
    /\ audit' = create_audit_log(audit, proc[p].token.id, "token_revoked",
                                 TRUE, NoneStr, NoContext, None, "none")
    /\ revoked_ok' = revoked_ok \cup {proc[p].token.id}
    /\ last' = Call("revoke_token", NoneStr, proc[p].token_id, None, "none",
                    None, NoneStr, TRUE, 0)
    /\ proc' = [proc EXCEPT ![p] = Idle]
    /\ UNCHANGED <<tokens, nextId, now, calls, perm, issued>>

extend_token_begin(p, token_id, days) ==
    /\ Begins(p)
    /\ proc' = [proc EXCEPT ![p] =
                  InProgress("extend_token", "execute", NoneStr, token_id, days, NoRow, FALSE)]
    /\ UNCHANGED <<tokens, audit, nextId, now, revoked_ok, last, perm, issued>>

\* The SELECT by id: no row (return None) or the row.
extend_token_execute(p) ==
    LET token == id_query(tokens, proc[p].token_id)
    IN /\ proc[p].op = "extend_token"
       /\ proc[p].pc = "execute"
       /\ IF token = None
          THEN /\ proc' = [proc EXCEPT ![p] = Idle]
               /\ last' = Call("extend_token", NoneStr, proc[p].token_id, proc[p].days,
                               "none", None, NoneStr, FALSE, 0)
          ELSE /\ proc' = [proc EXCEPT ![p].token = tokens[token], ![p].pc = "commit"]
               /\ UNCHANGED last
       /\ UNCHANGED <<tokens, audit, nextId, now, revoked_ok, calls, perm, issued>>

\* The new expires_at, computed from the object read; commit.  stale: the
\* stored row was no longer active as the object says.
extend_token_commit(p) ==
    LET token == extended(proc[p].token, proc[p].days, now)
    IN /\ proc[p].op = "extend_token"
       /\ proc[p].pc = "commit"
       /\ tokens' = [tokens EXCEPT ![token.id] = flush(@, token, {"expires_at"})]
       /\ proc' = [proc EXCEPT ![p].token = token, ![p].pc = "audit",
                               ![p].stale = tokens[token.id].is_active # token.is_active]
       /\ UNCHANGED <<audit, nextId, now, revoked_ok, calls, last, perm, issued>>

\* refresh, _create_audit_log("token_extended") and return token.
extend_token_audit(p) ==
    /\ proc[p].op = "extend_token"
    /\ proc[p].pc = "audit"
    /\ audit' = create_audit_log(audit, proc[p].token.id, "token_extended",
                                 TRUE, NoneStr, NoContext, proc[p].days, "none")
    /\ last' = Call("extend_token", NoneStr, proc[p].token_id, proc[p].days, "none",
                    proc[p].token.id, NoneStr, TRUE, 0)
    /\ proc' = [proc EXCEPT ![p] = Idle]
    /\ UNCHANGED <<tokens, nextId, now, revoked_ok, calls, perm, issued>>

\* The steps of two callers in any order.  cleanup_expired_tokens makes one
\* SELECT and, as it finds nothing, no other storage call.
NextConc ==
    \/ Tick
    \/ \E p \in Procs, e \in Employees, n \in Names, d \in TtlDays, r \in RawTokens :
          create_token_begin(p, e, n, d, r)
    \/ \E p \in Procs : create_token_commit(p)
    \/ \E p \in Procs : create_token_audit(p)
    \/ \E p \in Procs, r \in PresentedTokens : validate_token_begin(p, r)
    \/ \E p \in Procs : validate_token_execute(p)
    \/ \E p \in Procs : validate_token_audit_failed(p)
    \/ \E p \in Procs : validate_token_commit(p)
    \/ \E p \in Procs : validate_token_audit(p)
    \/ \E p \in Procs, i \in TokenIds : revoke_token_begin(p, i)
    \/ \E p \in Procs : revoke_token_execute(p)
    \/ \E p \in Procs : revoke_token_commit(p)
    \/ \E p \in Procs : revoke_token_audit(p)
    \/ \E p \in Procs, i \in TokenIds, d \in ExtendDays : extend_token_begin(p, i, d)
    \/ \E p \in Procs : extend_token_execute(p)
    \/ \E p \in Procs : extend_token_commit(p)
    \/ \E p \in Procs : extend_token_audit(p)
    \/ \E d \in CleanupDays : calls < MaxConcCalls /\ cleanup_expired_tokens(d, "none")

SpecConc == InitConc /\ [][NextConc]_vars

\* ---------------------------------------------------------------- claims
\* A step that is a call of the repository (Tick is none).
IsCall == calls' = calls + 1

\* The last row of the audit table.
LastAudit(log) == log[Len(log)]

\* C1: once revoke_token has returned True for a token, the token stays
\* inactive and no later validate_token returns it.
C1_RevokedIsTerminal ==
    /\ \A i \in revoked_ok : i \in DOMAIN tokens => ~tokens[i].is_active
    /\ (last.op = "validate_token" /\ last.ret_token # None)
          => last.ret_token \notin revoked_ok

\* C1 witness: validate_token was called with the secret of a token revoked
\* before, and returned None.
C1_Witness ==
    /\ last.op = "validate_token"
    /\ last.ret_token = None
    /\ \E i \in revoked_ok :
          i \in DOMAIN tokens /\ tokens[i].token_hash = hash_token(last.raw)

\* C2: a create_token that returns (raw_token, token) has added one row to
\* tokens, active and not revoked, with token_hash = digest of the returned
\* string and expires_at = now + expires_in_days (None without it), and one
\* token_created audit row of that token; no other row has changed.
C2_IssueAddsToken ==
    [][(IsCall /\ last'.op = "create_token" /\ last'.ret_bool) =>
          LET id == last'.ret_token
          IN /\ id \notin DOMAIN tokens
             /\ DOMAIN tokens' = DOMAIN tokens \cup {id}
             /\ \A i \in DOMAIN tokens : tokens'[i] = tokens[i]
             /\ tokens'[id].id = id
             /\ tokens'[id].is_active
             /\ ~tokens'[id].is_revoked
             /\ tokens'[id].token_hash = hash_token(last'.ret_raw)
             /\ tokens'[id].expires_at =
                   (IF last'.days = None THEN None ELSE now + last'.days)
             /\ Len(audit') = Len(audit) + 1
             /\ SubSeq(audit', 1, Len(audit)) = audit
             /\ LastAudit(audit').token_id = id
             /\ LastAudit(audit').action = "token_created"
             /\ LastAudit(audit').success]_vars

\* C2 witness: create_token with expires_in_days has returned a token.
C2_Witness ==
    /\ last.op = "create_token"
    /\ last.ret_bool
    /\ last.days # None
    /\ last.ret_token \in DOMAIN tokens
    /\ tokens[last.ret_token].expires_at = now + last.days

\* C3: a create_token that returns None has left tokens and the audit table
\* as they were.
C3_IssueAtomic ==
    [][(IsCall /\ last'.op = "create_token" /\ ~last'.ret_bool) =>
          (tokens' = tokens /\ audit' = audit)]_vars

\* The text columns of a tokens row and of an audit row (the other columns
\* are integers, booleans, timestamps and the JSON day count).
TokenText(row) == {row.token_hash, row.name, row.description}

AuditText(rec) ==
    {rec.action, rec.error_message, rec.ip_address, rec.user_agent,
     rec.endpoint}

\* C4: no text column of any tokens row or audit row holds a string that
\* _generate_token produces.
C4_RawSecretNotStored ==
    /\ \A i \in DOMAIN tokens : TokenText(tokens[i]) \cap RawTokens = {}
    /\ \A k \in 1..Len(audit) : AuditText(audit[k]) \cap RawTokens = {}

\* C4 witness: a secret has been issued and presented again, and the audit
\* table holds rows of both calls.
C4_Witness ==
    /\ last.op = "validate_token"
    /\ last.raw \in RawTokens
    /\ last.ret_token # None
    /\ Len(audit) >= 2

\* C5: validate_token with the secret of an active, unexpired token returns
\* that token, sets its last_used_at to now (>= created_at) and appends one
\* token_used success row of that token.
C5_ValidateFresh ==
    [][\A i \in DOMAIN tokens :
          (/\ IsCall
           /\ last'.op = "validate_token"
           /\ hash_token(last'.raw) = tokens[i].token_hash
           /\ tokens[i].is_active
           /\ (tokens[i].expires_at = None \/ tokens[i].expires_at >= now))
          => /\ last'.ret_token = i
             /\ tokens'[i].last_used_at = now
             /\ tokens'[i].last_used_at >= tokens[i].created_at
             /\ Len(audit') = Len(audit) + 1
             /\ SubSeq(audit', 1, Len(audit)) = audit
             /\ LastAudit(audit').token_id = i
             /\ LastAudit(audit').action = "token_used"
             /\ LastAudit(audit').success]_vars

\* C5 witness: a token that had never been used was validated a day after
\* it was issued.
C5_Witness ==
    /\ last.op = "validate_token"
    /\ last.ret_token \in DOMAIN tokens
    /\ tokens[last.ret_token].last_used_at = now
    /\ tokens[last.ret_token].created_at < now
    /\ Len(audit) = 2

\* C6: validate_token with a string whose digest no token has returns None
\* and appends one token_validation_failed row with success = False and no
\* token_id.
C6_OrphanAudit ==
    [][(/\ IsCall
        /\ last'.op = "validate_token"
        /\ \A i \in DOMAIN tokens : tokens[i].token_hash # hash_token(last'.raw))
          => /\ last'.ret_token = None
             /\ Len(audit') = Len(audit) + 1
             /\ LastAudit(audit').action = "token_validation_failed"
             /\ ~LastAudit(audit').success
             /\ LastAudit(audit').token_id = None]_vars

\* C7: validate_token with the secret of an active token whose expires_at
\* is before now returns None, appends one failed row of that token and
\* changes no row of tokens, at every repetition.
C7_ExpiredReadOnly ==
    [][\A i \in DOMAIN tokens :
          (/\ IsCall
           /\ last'.op = "validate_token"
           /\ hash_token(last'.raw) = tokens[i].token_hash
           /\ tokens[i].is_active
           /\ tokens[i].expires_at # None
           /\ tokens[i].expires_at < now)
          => /\ last'.ret_token = None
             /\ tokens' = tokens
             /\ Len(audit') = Len(audit) + 1
             /\ SubSeq(audit', 1, Len(audit)) = audit
             /\ LastAudit(audit').token_id = i
             /\ LastAudit(audit').action = "token_validation_failed"
             /\ ~LastAudit(audit').success]_vars

\* C7 witness: the same expired token has failed validation twice in a row
\* and is still active with its expires_at.
C7_Witness ==
    /\ last.op = "validate_token"
    /\ last.ret_token = None
    /\ Len(audit) >= 3
    /\ LastAudit(audit).action = "token_validation_failed"
    /\ audit[Len(audit) - 1].action = "token_validation_failed"
    /\ audit[Len(audit) - 1].token_id = LastAudit(audit).token_id
    /\ LET i == LastAudit(audit).token_id
       IN tokens[i].is_active /\ tokens[i].expires_at < now
             /\ tokens[i].last_used_at = None

\* C8: validate_token with the secret of an inactive token returns None and
\* appends a failed audit row for the attempt.
C8_InactiveAudited ==
    [][\A i \in DOMAIN tokens :
          (/\ IsCall
           /\ last'.op = "validate_token"
           /\ hash_token(last'.raw) = tokens[i].token_hash
           /\ ~tokens[i].is_active)
          => /\ last'.ret_token = None
             /\ Len(audit') = Len(audit) + 1
             /\ ~LastAudit(audit').success]_vars

\* C9: revoke_token of an existing id returns True, leaves is_active False
\* and every other column and row as it was (so a repeated call leaves the
\* table as the first call left it), and appends one token_revoked row.
C9_RevokeIdempotent ==
    [][\A i \in DOMAIN tokens :
          (IsCall /\ last'.op = "revoke_token" /\ last'.token_id = i)
          => /\ last'.ret_bool
             /\ ~tokens'[i].is_active
             /\ tokens' = [tokens EXCEPT ![i].is_active = FALSE]
             /\ (~tokens[i].is_active => tokens' = tokens)
             /\ Len(audit') = Len(audit) + 1
             /\ SubSeq(audit', 1, Len(audit)) = audit
             /\ LastAudit(audit').token_id = i
             /\ LastAudit(audit').action = "token_revoked"
             /\ LastAudit(audit').success]_vars

\* C9 witness: revoke_token has returned True twice in a row for one token.
C9_Witness ==
    /\ last.op = "revoke_token"
    /\ last.ret_bool
    /\ Len(audit) >= 2
    /\ LastAudit(audit).action = "token_revoked"
    /\ LastAudit(audit).token_id = last.token_id
    /\ audit[Len(audit) - 1].action = "token_revoked"
    /\ audit[Len(audit) - 1].token_id = last.token_id
    /\ ~tokens[last.token_id].is_active

\* C10: revoke_token of an id no row has returns False, writes no audit row
\* and changes no row of tokens.
C10_RevokeMissing ==
    [][(IsCall /\ last'.op = "revoke_token" /\ last'.token_id \notin DOMAIN tokens)
          => /\ ~last'.ret_bool
             /\ audit' = audit
             /\ tokens' = tokens]_vars

\* C10 witness: revoke_token of a missing id has returned False while the
\* table holds a token.
C10_Witness ==
    /\ last.op = "revoke_token"
    /\ ~last.ret_bool
    /\ last.token_id \notin DOMAIN tokens
    /\ DOMAIN tokens # {}

\* C11: extend_token of an existing token adds days to its expires_at, and
\* sets now + days when expires_at is None; so successive calls add up.
C11_ExtendCompounds ==
    [][\A i \in DOMAIN tokens :
          (IsCall /\ last'.op = "extend_token" /\ last'.token_id = i)
          => /\ last'.ret_token = i
             /\ tokens'[i].expires_at =
                   (IF tokens[i].expires_at = None
                    THEN now + last'.days
                    ELSE tokens[i].expires_at + last'.days)]_vars

\* C11 witness: a token issued with expires_at = created_at + 1 has been
\* extended twice in a row, by 1 day and by 2 days or by 2 and by 1, a day
\* after it was issued: expires_at = created_at + 1 + 3.
C11_Witness ==
    /\ last.op = "extend_token"
    /\ last.ret_token \in DOMAIN tokens
    /\ Len(audit) = 3
    /\ audit[1].action = "token_created"
    /\ audit[2].action = "token_extended"
    /\ audit[3].action = "token_extended"
    /\ now > tokens[last.ret_token].created_at
    /\ tokens[last.ret_token].expires_at = tokens[last.ret_token].created_at + 4

\* C12: an extend_token that returns the token has appended a token_extended
\* row of that token whose extra_metadata holds the day count.
C12_ExtendAuditHasDays ==
    [][(IsCall /\ last'.op = "extend_token" /\ last'.ret_bool)
          => /\ Len(audit') = Len(audit) + 1
             /\ LastAudit(audit').token_id = last'.ret_token
             /\ LastAudit(audit').action = "token_extended"
             /\ LastAudit(audit').extra_metadata = last'.days]_vars

\* The tokens Cleanup(d) is to delete: is_active = False and expires_at
\* before now - d.
SweepDue(tab, t, days_inactive) ==
    {i \in DOMAIN tab : /\ ~tab[i].is_active
                        /\ tab[i].expires_at # None
                        /\ tab[i].expires_at < t - days_inactive}

\* C13: cleanup_expired_tokens(d) deletes every token with is_active = False
\* and expires_at before now - d, and returns how many it deleted.
C13_CleanupDeletesDue ==
    [][(IsCall /\ last'.op = "cleanup_expired_tokens")
          => LET due == SweepDue(tokens, now, last'.days)
             IN /\ DOMAIN tokens' \cap due = {}
                /\ last'.ret_count = Cardinality(DOMAIN tokens \ DOMAIN tokens')]_vars

\* C14: cleanup_expired_tokens(d) deletes no token that is active, and none
\* whose expires_at is None or not before now - d.
C14_CleanupSparesOthers ==
    [][(IsCall /\ last'.op = "cleanup_expired_tokens")
          => \A i \in DOMAIN tokens \ SweepDue(tokens, now, last'.days) :
                i \in DOMAIN tokens' /\ tokens'[i] = tokens[i]]_vars

\* C14 witness: cleanup_expired_tokens has run over a table that holds an
\* active token expired before the cutoff and an inactive token without
\* expiry, and both are still there.
C14_Witness ==
    /\ last.op = "cleanup_expired_tokens"
    /\ \E i \in DOMAIN tokens :
          /\ tokens[i].is_active
          /\ tokens[i].expires_at # None
          /\ tokens[i].expires_at < now - last.days
    /\ \E i \in DOMAIN tokens :
          ~tokens[i].is_active /\ tokens[i].expires_at = None

Authorized(permissions, resource, action) ==
    LET p == permissions.resources.map[resource]
    IN \/ permissions.admin = JsonBool(TRUE)
       \/ /\ permissions.admin # JsonBool(TRUE)
          /\ \/ p = JsonBool(TRUE)
             \/ p.type = "str" /\ p.s = action
             \/ p.type = "list" /\ action \in p.items

\* C16: for every document whose admin flag is true or whose resources zone
\* is a mapping or missing, check_permission grants exactly when the
\* evaluator of the specification does.
C16_AuthorizeMatchesReference ==
    (perm.result \notin {"pending", "idle"}
        /\ \/ perm.permissions.admin = JsonBool(TRUE)
           \/ perm.permissions.resources.type \in {"dict", "absent"})
    => perm.result =
          (IF Authorized(perm.permissions, perm.resource, perm.action)
           THEN "True" ELSE "False")

\* C16 witness: without admin, a list that holds the action has granted it.
C16_Witness ==
    /\ perm.result = "True"
    /\ perm.permissions.admin = JsonBool(FALSE)
    /\ perm.permissions.resources.type = "dict"
    /\ perm.permissions.resources.map[perm.resource] = JsonList({"read"})
    /\ perm.action = "read"

\* C17: check_permission returns True or False for every document, and
\* False when admin is not true and the resources zone is no mapping.
C17_AuthorizeNeverFails ==
    perm.result \notin {"pending", "idle"}
    => /\ perm.result \in {"True", "False"}
       /\ (perm.permissions.admin # JsonBool(TRUE)
             /\ perm.permissions.resources.type \notin {"dict", "absent"})
          => perm.result = "False"

\* What a call returned to its caller.
Returned(call) == <<call.ret_token, call.ret_raw, call.ret_bool>>

\* The credential has no active row, or its row has expired.
InvalidCredential(tab, raw_token, t) ==
    \A i \in DOMAIN tab :
        tab[i].token_hash = hash_token(raw_token)
        => ~tab[i].is_active \/ is_expired(tab[i], t)

\* C18 as stated: a validate_token call in which a storage call raised
\* returns something else than the None of an invalid credential.
C18_FailureDistinct ==
    [][(IsCall /\ last'.op = "validate_token" /\ last'.fail \in {"execute", "commit"})
       => Returned(last') # <<None, NoneStr, FALSE>>]_vars

\* C18 amended: a validate_token call in which the lookup or the commit of
\* last_used_at raised returns None, as a call does for a credential that is
\* not found, inactive or expired, and leaves both tables as they were.
C18_FailureReturnsNone ==
    [][(IsCall /\ last'.op = "validate_token")
       => /\ last'.fail \in {"execute", "commit"}
             => /\ Returned(last') = <<None, NoneStr, FALSE>>
                /\ tokens' = tokens
                /\ audit' = audit
          /\ InvalidCredential(tokens, last'.raw, now)
             => Returned(last') = <<None, NoneStr, FALSE>>]_vars

\* C18 witness: the commit of last_used_at raised for a valid credential and
\* the call returned None.
C18_Witness ==
    /\ last.op = "validate_token"
    /\ last.fail = "commit"
    /\ Returned(last) = <<None, NoneStr, FALSE>>
    /\ ~InvalidCredential(tokens, last.raw, now)
    /\ \E i \in DOMAIN tokens : tokens[i].token_hash = hash_token(last.raw)

\* C19: a revoke_token or extend_token call in which a storage call raised
\* (lookup, commit, refresh or audit write) returns False / None and leaves
\* the token and audit tables as they were.
C19_FailureAborts ==
    [][(IsCall /\ last'.op \in {"revoke_token", "extend_token"} /\ last'.fail # "none")
       => /\ ~last'.ret_bool
          /\ last'.ret_token = None
          /\ tokens' = tokens
          /\ audit' = audit]_vars

\* The audit action that records a successful call.
AuditActionOf(op) ==
    IF op = "create_token" THEN "token_created"
    ELSE IF op = "revoke_token" THEN "token_revoked"
    ELSE "token_extended"

\* The token a successful call was about.
TokenOf(call) == IF call.op = "revoke_token" THEN call.token_id ELSE call.ret_token

\* C20: whenever create_token, revoke_token or extend_token returns success,
\* the call has added the audit row of its action for its token, also when
\* storage calls may raise.
C20_AuditNeverLost ==
    [][(IsCall /\ last'.op \in {"create_token", "revoke_token", "extend_token"}
          /\ last'.ret_bool)
       => /\ Len(audit') = Len(audit) + 1
          /\ LastAudit(audit').token_id = TokenOf(last')
          /\ LastAudit(audit').action = AuditActionOf(last'.op)
          /\ LastAudit(audit').success]_vars

\* The columns of a row outside `fields` are as they were.
OnlyChanged(old, new, fields) == \A f \in (DOMAIN old) \ fields : new[f] = old[f]

\* The row validate_token finds for a secret: its id, or None.
RowOf(tab, raw_token) == validate_query(tab, hash_token(raw_token))

\* C22: validate_token changes at most last_used_at, extend_token at most
\* expires_at, revoke_token at most is_active / is_revoked, each on the
\* token it targets only; none of them removes a row, and a row leaves the
\* table through cleanup_expired_tokens only.
C22_OwnFieldOnly ==
    [][IsCall
       => /\ (DOMAIN tokens \ DOMAIN tokens' # {}) => last'.op = "cleanup_expired_tokens"
          /\ last'.op \in {"validate_token", "revoke_token", "extend_token"}
             => LET target == IF last'.op = "validate_token"
                              THEN RowOf(tokens, last'.raw) ELSE last'.token_id
                    own == IF last'.op = "validate_token" THEN {"last_used_at"}
                           ELSE IF last'.op = "extend_token" THEN {"expires_at"}
                           ELSE {"is_active", "is_revoked"}
                IN /\ DOMAIN tokens' = DOMAIN tokens
                   /\ \A i \in DOMAIN tokens :
                         IF i = target THEN OnlyChanged(tokens[i], tokens'[i], own)
                         ELSE tokens'[i] = tokens[i]]_vars

\* C22 witness: of two stored tokens one has been validated at a later day
\* than it was created, the other has never been touched.
C22_Witness ==
    /\ last.op = "validate_token"
    /\ last.ret_bool
    /\ tokens[last.ret_token].last_used_at = now
    /\ tokens[last.ret_token].created_at < now
    /\ \E i \in DOMAIN tokens : i # last.ret_token /\ tokens[i].last_used_at = None

\* C23: after revoke_token has returned True for a token, the token's
\* is_revoked is True.
C23_RevokeSetsRevoked ==
    [][(IsCall /\ last'.op = "revoke_token" /\ last'.ret_bool)
       => tokens'[last'.token_id].is_revoked]_vars

\* C24: a validate_token call appends a token_used row only together with
\* the stored last_used_at = now of that token, and when the audit write
\* fails after the commit the last_used_at update stays stored while no row
\* is appended.
C24_TouchBeforeAudit ==
    [][(IsCall /\ last'.op = "validate_token")
       => /\ (Len(audit') > Len(audit) /\ LastAudit(audit').action = "token_used")
             => tokens'[LastAudit(audit').token_id].last_used_at = now
          /\ (last'.fail = "audit" /\ RowOf(tokens, last'.raw) # None
                /\ ~is_expired(tokens[RowOf(tokens, last'.raw)], now))
             => /\ tokens'[RowOf(tokens, last'.raw)].last_used_at = now
                /\ audit' = audit]_vars

\* C24 witness: the audit write of a successful validation failed; the
\* token's last_used_at is stored, no token_used row exists.
C24_Witness ==
    /\ last.op = "validate_token"
    /\ last.fail = "audit"
    /\ last.ret_bool
    /\ tokens[last.ret_token].last_used_at = now
    /\ now > 0
    /\ \A k \in 1..Len(audit) : audit[k].action # "token_used"

C30_ExpiryAtValidation ==
    [][(IsCall /\ last'.op = "validate_token")
       => LET valid == {i \in DOMAIN tokens :
                          /\ tokens[i].token_hash = hash_token(last'.raw)
                          /\ tokens[i].is_active
                          /\ (tokens[i].expires_at = None \/ tokens[i].expires_at >= now)}
          IN /\ last'.ret_bool <=> valid # {}
             /\ last'.ret_bool => last'.ret_token \in valid
             /\ ~last'.ret_bool => last'.ret_token = None]_vars

\* C30 witness: a token failed validation as expired, was extended to
\* exactly now, and validates.
C30_Witness ==
    /\ last.op = "validate_token"
    /\ last.ret_bool
    /\ tokens[last.ret_token].expires_at = now
    /\ Len(audit) = 4
    /\ audit[2].action = "token_validation_failed"
    /\ audit[2].token_id = last.ret_token
    /\ audit[3].action = "token_extended"
    /\ audit[4].action = "token_used"

\* C30 witness of the other case: extended, the token's expires_at is still
\* in the past and validation fails again.
C30_StillExpired ==
    /\ last.op = "validate_token"
    /\ ~last.ret_bool
    /\ Len(audit) = 4
    /\ audit[2].action = "token_validation_failed"
    /\ audit[3].action = "token_extended"
    /\ audit[4].action = "token_validation_failed"
    /\ audit[2].token_id = audit[3].token_id
    /\ audit[4].token_id = audit[3].token_id
    /\ tokens[audit[4].token_id].expires_at # None
    /\ tokens[audit[4].token_id].expires_at < now

\* Caller p takes the step that leaves pc.
Steps(p, op, pc) == proc[p].op = op /\ proc[p].pc = pc /\ proc'[p] # proc[p]

\* C21: no two rows ever inserted, stored or not, have the same token_hash,
\* under any interleaving of two callers; a create_token whose hash is
\* taken returns None and leaves tokens and audit rows as they were.
C21_DigestUniqueEver ==
    [][/\ \A i \in DOMAIN issued' : \A j \in DOMAIN issued' :
             i # j => issued'[i] # issued'[j]
       /\ \A i \in DOMAIN tokens' : issued'[i] = tokens'[i].token_hash
       /\ \A p \in Procs :
             (Steps(p, "create_token", "commit")
                /\ \E i \in DOMAIN issued : issued[i] = proc[p].token.token_hash)
             => /\ proc'[p] = Idle
                /\ last'.op = "create_token" /\ ~last'.ret_bool /\ last'.ret_token = None
                /\ tokens' = tokens /\ audit' = audit /\ issued' = issued]_vars

\* C21 witness: of two create_token calls in progress with the same secret
\* one has inserted its row, the other has failed.
C21_Witness ==
    /\ last.op = "create_token"
    /\ ~last.ret_bool
    /\ \E p \in Procs :
          /\ proc[p].op = "create_token" /\ proc[p].pc = "audit"
          /\ proc[p].raw = last.raw
          /\ proc[p].token.id \in DOMAIN tokens
          /\ \E q \in Procs : q # p /\ proc[q] = Idle
    /\ Len(issued) = 2

\* C25: the commit of an extend_token call stores the expires_at computed
\* from the row that call read (its expires_at plus its days), whatever
\* another caller has committed since; the call then returns the token and
\* appends its token_extended row.
C25_ExtendLastWriterWins ==
    [][\A p \in Procs :
          /\ Steps(p, "extend_token", "commit")
             => /\ proc[p].token.expires_at # None
                   => tokens'[proc[p].token.id].expires_at
                         = proc[p].token.expires_at + proc[p].days
                /\ proc[p].token.expires_at = None
                   => tokens'[proc[p].token.id].expires_at = now + proc[p].days
                /\ proc'[p].pc = "audit"
          /\ Steps(p, "extend_token", "audit")
             => /\ last'.op = "extend_token" /\ last'.ret_token = proc[p].token.id
                /\ Len(audit') = Len(audit) + 1
                /\ LastAudit(audit').action = "token_extended"
                /\ LastAudit(audit').token_id = proc[p].token.id]_vars

\* C25 witness: two extend_token calls with different days read the same
\* expires_at T of a token created with expires_in_days = 0 and both have
\* committed; the stored expires_at is T plus the days of one of them.
C25_Witness ==
    /\ last.op = "create_token" /\ last.days = 0 /\ last.ret_bool
    /\ \A p \in Procs : /\ proc[p].op = "extend_token" /\ proc[p].pc = "audit"
                        /\ proc[p].token.id = last.ret_token
                        /\ proc[p].token.expires_at - proc[p].days
                              = tokens[last.ret_token].created_at
    /\ proc[1].days # proc[2].days
    /\ tokens[last.ret_token].expires_at = proc[1].token.expires_at
    /\ tokens[last.ret_token].expires_at < proc[2].token.expires_at

\* C26: when validate_token writes its token_used row and returns the token,
\* the stored token is active: no revoke_token has committed is_active =
\* False for it.
C26_NoUseAfterRevoke ==
    [][\A p \in Procs :
          Steps(p, "validate_token", "audit")
          => tokens[proc[p].token.id].is_active]_vars

\* C27: a stored token that is inactive stays inactive at every step of any
\* caller; the commit of extend_token changes expires_at only.
C27_ExtendKeepsRevoked ==
    [][/\ \A i \in DOMAIN tokens : ~tokens[i].is_active => ~tokens'[i].is_active
       /\ \A p \in Procs :
             Steps(p, "extend_token", "commit")
             => OnlyChanged(tokens[proc[p].token.id], tokens'[proc[p].token.id],
                            {"expires_at"})]_vars

\* C27 witness: an extend_token that read the token as active has committed
\* its expires_at after a revoke_token committed; the token is inactive.
C27_Witness ==
    \E p \in Procs :
        /\ proc[p].op = "extend_token" /\ proc[p].pc = "audit"
        /\ proc[p].stale
        /\ proc[p].token.is_active
        /\ ~tokens[proc[p].token.id].is_active
        /\ tokens[proc[p].token.id].expires_at = proc[p].token.expires_at

\* C29: every token has at most one token_created row, and every other row
\* of a token comes after its token_created row.
C29_CreatedFirst ==
    /\ \A j \in 1..Len(audit) : \A k \in 1..Len(audit) :
          (j # k /\ audit[j].action = "token_created" /\ audit[k].action = "token_created")
          => audit[j].token_id # audit[k].token_id
    /\ \A k \in 1..Len(audit) :
          audit[k].action # "token_created"
          => \E j \in 1..(k - 1) : /\ audit[j].action = "token_created"
                                   /\ audit[j].token_id = audit[k].token_id

====
